---- MODULE Spec2Model ----
(***************************************************************************)
(* State machine of examples/laughing-owl/index.ts: a graphology           *)
(* multigraph rendered by sigma, with hover reducers, a camera driven      *)
(* level-of-detail toggle and a context-menu remove / add-back edit        *)
(* buffer.                                                                 *)
(*                                                                         *)
(* JavaScript values: a string-valued or boolean-valued slot that may be   *)
(* undefined is a string ("true", "false", "undefined", or a node id); a   *)
(* set, list or object that may be undefined is None or Some(v).           *)
(* Attribute maps are modelled by value.  Camera ratios are in units of    *)
(* 1/10000.                                                                *)
(***************************************************************************)
EXTENDS Integers, Sequences, FiniteSets, TLC

VARIABLES graph, camera, state, contextState, menuVisible, timers,
          lastEvent, transition, lod, trip, bridgeFor, rendered

vars == <<graph, camera, state, contextState, menuVisible, timers,
          lastEvent, transition, lod, trip, bridgeFor, rendered>>

\* ------------------------------------------------------------------ bounds
MaxEdges == 5
MaxBuffer == 3
MaxTimers == 1

\* -------------------------------------------------------- JavaScript values
Undefined == "undefined"
True == "true"
False == "false"
None == <<>>
Some(v) == <<v>>
IsSome(o) == o # <<>>
Val(o) == o[1]

Min(S) == CHOOSE x \in S : \A y \in S : x <= y
Max(S) == CHOOSE x \in S : \A y \in S : x >= y

\* ------------------------------------------------------- imported documents
NodeAttributes(label, color, hidden, isExtraData, isMalop, neighbors) ==
  [label |-> label, color |-> color, hidden |-> hidden,
   isExtraData |-> isExtraData, isMalop |-> isMalop, neighbors |-> neighbors]

\* graph.addNode(key, undefined) stores an empty attribute map
EmptyAttributes ==
  NodeAttributes(Undefined, Undefined, Undefined, Undefined, Undefined, None)

EdgeAttributes(label, attr, color) ==
  [label |-> label, attr |-> attr, color |-> color, hidden |-> Undefined]

Edge(key, source, target, attributes) ==
  [key |-> key, source |-> source, target |-> target, attributes |-> attributes]

\* graph_data_machine_json.json
machineData2 ==
  [nodes |->
     ("m" :> NodeAttributes("M", "#E00", False, False, True, Some({"p", "x"})) @@
      "p" :> NodeAttributes("P", "#0E0", True, Undefined, False, Some({"m", "q"})) @@
      "q" :> NodeAttributes("Q", "#00E", True, True, Undefined, None) @@
      "x" :> NodeAttributes("X", "#EE0", Undefined, True, False, Some({"m"}))),
   edges |->
     {Edge(1, "m", "p", EdgeAttributes("L1", FALSE, "#000000")),
      Edge(2, "p", "q", EdgeAttributes("L1", FALSE, "#000000")),
      Edge(3, "m", "x", EdgeAttributes("L1", FALSE, "#CCCCCC"))}]

\* graph_data_user_json.json
userData ==
  [nodes |->
     ("u" :> NodeAttributes("U", "#E00", False, True, False, Some({"v"})) @@
      "v" :> NodeAttributes("V", "#0E0", Undefined, False, False, Some({"u", "w"})) @@
      "w" :> NodeAttributes("W", "#00E", True, False, True, None)),
   edges |->
     {Edge(1, "u", "v", EdgeAttributes("L1", FALSE, "#000000")),
      Edge(2, "v", "w", EdgeAttributes("L1", FALSE, "#000000")),
      Edge(3, "v", "u", EdgeAttributes("L2", FALSE, "#000000")),
      Edge(4, "w", "u", EdgeAttributes("L3", TRUE, "#CCCCCC"))}]

NodeIds == DOMAIN machineData2.nodes \cup DOMAIN userData.nodes
DocKeys == {e.key : e \in machineData2.edges \cup userData.edges}

\* --------------------------------------------------------------- graphology
EmptyGraph == [nodes |-> <<>>, edges |-> {}]

HasNode(g, n) == n \in DOMAIN g.nodes

EdgeKeys(g) == {e.key : e \in g.edges}

\* a mutation of Clear: nothing is dropped before the import
ClearNothing(g) == g

\* graph.clear()
Clear(g) == EmptyGraph

\* graph.import(document): the document's nodes and edges join those of g
Import(g, document) ==
  [nodes |-> document.nodes @@ g.nodes, edges |-> g.edges \cup document.edges]

\* the automatic edge key generator: a key no edge holds and nobody remembers
FreshKey(g, held) ==
  LET used == DocKeys \cup EdgeKeys(g) \cup held
  IN  Min((1..(Cardinality(used) + 1)) \ used)

AddNode(g, n, attributes) ==
  [g EXCEPT !.nodes = (n :> attributes) @@ g.nodes]

AddEdgeWithKey(g, key, source, target, attributes) ==
  [g EXCEPT !.edges = @ \cup {Edge(key, source, target, attributes)}]

DropEdge(g, key) ==
  [g EXCEPT !.edges = {e \in @ : e.key # key}]

\* graph.dropNode(n): the node goes, and every edge incident to it
DropNode(g, n) ==
  [nodes |-> [k \in DOMAIN g.nodes \ {n} |-> g.nodes[k]],
   edges |-> {e \in g.edges : e.source # n /\ e.target # n}]

RECURSIVE SeqByKey(_)
SeqByKey(S) ==
  IF S = {} THEN <<>>
  ELSE LET e == CHOOSE x \in S : \A y \in S : x.key <= y.key
       IN  <<e>> \o SeqByKey(S \ {e})

\* graph.findEdge(node, callback) with a callback that never returns true:
\* every edge incident to node is visited once, in-edges (self-loops among
\* them) before out-edges
IncidentEdges(g, n) ==
  SeqByKey({e \in g.edges : e.target = n}) \o
  SeqByKey({e \in g.edges : e.source = n /\ e.target # n})

\* ------------------------------------------------------------ display_values
Threshold == 3000

\* a mutation of WritesHidden: the comparison with the current hidden value is
\* left out, as it is in the edge loop
WritesHiddenUnguarded(attributes, ratio) ==
  attributes.isExtraData = True

\* the guard under which display_values calls setNodeAttribute(node, 'hidden')
WritesHidden(attributes, ratio) ==
  IF ratio < Threshold
    THEN attributes.isExtraData = True /\ attributes.hidden = True
    ELSE attributes.isExtraData = True /\ attributes.hidden = False

DisplayNode(attributes, ratio) ==
  IF WritesHidden(attributes, ratio)
    THEN [attributes EXCEPT !.hidden = IF ratio < Threshold THEN False ELSE True]
    ELSE attributes

\* the guard under which display_values calls setEdgeAttribute(edge, 'color')
WritesColor(e, ratio) == e.attributes.attr = FALSE

DisplayEdge(e, ratio) ==
  IF WritesColor(e, ratio)
    THEN [e EXCEPT !.attributes.color =
            IF ratio < Threshold THEN "#FFFFFF" ELSE "#000000"]
    ELSE e

\* the nodes and edges on which a run of display_values writes
NodeWrites(g, ratio) ==
  {n \in DOMAIN g.nodes : WritesHidden(g.nodes[n], ratio)}

EdgeWrites(g, ratio) ==
  {e \in g.edges : WritesColor(e, ratio)}

display_values(g, ratio) ==
  [nodes |-> [n \in DOMAIN g.nodes |-> DisplayNode(g.nodes[n], ratio)],
   edges |-> {DisplayEdge(e, ratio) : e \in g.edges}]

\* -------------------------------------------------------------------- camera
\* The ratios the camera of this model can rest at, ascending; between two
\* rests an animated transition passes through the ratios in between.
RatioLadder == <<2999, 3000, 10000>>

Ratios == {RatioLadder[i] : i \in 1..Len(RatioLadder)}

\* camera.animatedZoom / animatedUnzoom / animatedReset: the ratio the
\* transition will end at
ZoomedRatio(r) == IF \E x \in Ratios : x < r THEN Max({x \in Ratios : x < r}) ELSE r
UnzoomedRatio(r) == IF \E x \in Ratios : x > r THEN Min({x \in Ratios : x > r}) ELSE r
ResetRatio == Max(Ratios)

\* starting a transition leaves the ratio where it is; frames move it
Animate(cam, target) == [ratio |-> cam.ratio, target |-> Some(target)]

Between(a, b) == {x \in Ratios : (a < x /\ x < b) \/ (b < x /\ x < a)}

\* ------------------------------------------------------------ initial state
NoLod == [ran |-> FALSE, ratio |-> 0, nodeWrites |-> 0, edgeWrites |-> 0,
          repeat |-> FALSE]
NoTrip == [stage |-> "none", graph |-> EmptyGraph, bridges |-> {}]
NoRender == [kind |-> "none", node |-> Undefined, edge |-> None, res |-> None]

\* the handler that ran last; stageClicked tells that the stage has been
\* clicked since the last right-click on a node
Event(type, threw) ==
  [type |-> type, threw |-> threw, arg |-> Undefined,
   stageClicked |-> IF type \in {"init", "rightClickNode"} THEN FALSE
                    ELSE IF type = "clickStage" THEN TRUE
                    ELSE lastEvent.stageClicked]

InitState ==
  [hoveredNode |-> Undefined, hoveredNodeLabel |-> Undefined,
   hoveredNodeIsMalop |-> Undefined, selectedNode |-> Undefined,
   suggestions |-> None, hoveredNeighbors |-> None]

InitContextState ==
  [selectedNode |-> Undefined, removedNode |-> Undefined,
   removedNodeAttributes |-> None, revmovedEdges |-> Some(<<>>),
   newEdges |-> Some(<<>>)]

Init ==
  /\ graph = Import(EmptyGraph, machineData2)
  /\ camera = [ratio |-> ResetRatio, target |-> None]
  /\ state = InitState
  /\ contextState = InitContextState
  /\ menuVisible = FALSE
  /\ timers = 0
  /\ lastEvent = Event("init", FALSE)
  /\ transition = "idle"
  /\ lod = NoLod
  /\ trip = NoTrip
  /\ bridgeFor = <<>>
  /\ rendered = NoRender

\* --------------------------------------------------------------------- hover
\* a mutation of setHoveredNode: the leave branch keeps hoveredNeighbors
setHoveredNodeKeepsNeighbors(st, g, node) ==
  IF node # Undefined
    THEN [st EXCEPT !.hoveredNode = node,
                    !.hoveredNeighbors =
                       IF IsSome(g.nodes[node].neighbors)
                         THEN Some(Val(g.nodes[node].neighbors))
                         ELSE Some({}),
                    !.hoveredNodeLabel = g.nodes[node].label,
                    !.hoveredNodeIsMalop = g.nodes[node].isMalop]
    ELSE [st EXCEPT !.hoveredNode = Undefined,
                    !.hoveredNodeLabel = Undefined,
                    !.hoveredNodeIsMalop = False]

setHoveredNode(st, g, node) ==
  IF node # Undefined
    THEN [st EXCEPT !.hoveredNode = node,
                    !.hoveredNeighbors =
                       IF IsSome(g.nodes[node].neighbors)
                         THEN Some(Val(g.nodes[node].neighbors))
                         ELSE Some({}),
                    !.hoveredNodeLabel = g.nodes[node].label,
                    !.hoveredNodeIsMalop = g.nodes[node].isMalop]
    ELSE [st EXCEPT !.hoveredNode = Undefined,
                    !.hoveredNeighbors = None,
                    !.hoveredNodeLabel = Undefined,
                    !.hoveredNodeIsMalop = False]

EnterNode(n) ==
  /\ HasNode(graph, n)
  /\ state' = setHoveredNode(state, graph, n)
  /\ lastEvent' = Event("enterNode", FALSE)
  /\ transition' = "idle"
  /\ lod' = NoLod
  /\ trip' = NoTrip
  /\ rendered' = NoRender
  /\ UNCHANGED <<graph, camera, contextState, menuVisible, timers, bridgeFor>>

LeaveNode ==
  /\ state' = setHoveredNode(state, graph, Undefined)
  /\ lastEvent' = Event("leaveNode", FALSE)
  /\ transition' = "idle"
  /\ lod' = NoLod
  /\ trip' = NoTrip
  /\ rendered' = NoRender
  /\ UNCHANGED <<graph, camera, contextState, menuVisible, timers, bridgeFor>>

\* ---------------------------------------------------------- zoom and clicks
\* a handler's call of display_values(), with the writes it performs
RunDisplayValues ==
  /\ graph' = display_values(graph, camera.ratio)
  /\ lod' = [ran |-> TRUE, ratio |-> camera.ratio,
             nodeWrites |-> Cardinality(NodeWrites(graph, camera.ratio)),
             edgeWrites |-> Cardinality(EdgeWrites(graph, camera.ratio)),
             repeat |-> lod.ran /\ lod.ratio = camera.ratio]

ZoomHandler(type, target) ==
  /\ camera' = Animate(camera, target)
  /\ RunDisplayValues
  /\ lastEvent' = Event(type, FALSE)
  /\ transition' = "running"
  /\ trip' = NoTrip
  /\ rendered' = NoRender
  /\ UNCHANGED <<state, contextState, menuVisible, timers, bridgeFor>>

ZoomIn == ZoomHandler("zoomIn", ZoomedRatio(camera.ratio))

ZoomOut == ZoomHandler("zoomOut", UnzoomedRatio(camera.ratio))

ZoomReset == ZoomHandler("zoomReset", ResetRatio)

DoubleClickNode(n) ==
  /\ HasNode(graph, n)
  /\ ZoomHandler("doubleClickNode", ZoomedRatio(camera.ratio))

ClickStage ==
  /\ menuVisible' = FALSE
  /\ RunDisplayValues
  /\ lastEvent' = Event("clickStage", FALSE)
  /\ transition' = "idle"
  /\ trip' = NoTrip
  /\ rendered' = NoRender
  /\ UNCHANGED <<camera, state, contextState, timers, bridgeFor>>

\* one frame of a running transition: an intermediate ratio, or its end.
\* transition is "running" from a zoom handler until another user event, and
\* "done" once such a transition has ended with no user event since the click.
AnimationFrame ==
  /\ IsSome(camera.target)
  /\ \/ /\ \E r \in Between(camera.ratio, Val(camera.target)) :
             camera' = [camera EXCEPT !.ratio = r]
        /\ UNCHANGED transition
     \/ /\ camera' = [ratio |-> Val(camera.target), target |-> None]
        /\ transition' = IF transition = "running" THEN "done" ELSE transition
  /\ lastEvent' = Event("frame", FALSE)
  /\ lod' = NoLod
  /\ trip' = NoTrip
  /\ rendered' = NoRender
  /\ UNCHANGED <<graph, state, contextState, menuVisible, timers, bridgeFor>>

\* ------------------------------------------------------------- context menu
RightClickNode(n) ==
  /\ HasNode(graph, n)
  /\ timers < MaxTimers
  /\ menuVisible' = FALSE
  /\ contextState' = [contextState EXCEPT !.selectedNode = n]
  /\ timers' = timers + 1
  /\ lastEvent' = Event("rightClickNode", FALSE)
  /\ transition' = "idle"
  /\ lod' = NoLod
  /\ trip' = NoTrip
  /\ rendered' = NoRender
  /\ UNCHANGED <<graph, camera, state, bridgeFor>>

\* the callback given to setTimeout by the rightClickNode handler
Timeout ==
  /\ timers > 0
  /\ menuVisible' = TRUE
  /\ timers' = timers - 1
  /\ lastEvent' = Event("timeout", FALSE)
  /\ lod' = NoLod
  /\ trip' = NoTrip
  /\ rendered' = NoRender
  /\ UNCHANGED <<graph, camera, state, contextState, transition, bridgeFor>>

\* ---------------------------------------------------------------- edit buffer
Outcome(g, cs, threw) == [graph |-> g, contextState |-> cs, threw |-> threw]

Range(seq) == {seq[i] : i \in 1..Len(seq)}

HeldKeys(newEdges) == IF IsSome(newEdges) THEN Range(Val(newEdges)) ELSE {}

BufferLength(list) == IF IsSome(list) THEN Len(Val(list)) ELSE 0

\* the record the remove handler pushes on revmovedEdges for a visited edge
RemovedEdge(e) ==
  [source |-> e.source, target |-> e.target, attributes |-> e.attributes]

RemovedEdges(visited) == [i \in 1..Len(visited) |-> RemovedEdge(visited[i])]

RECURSIVE Ascending(_)
Ascending(S) == IF S = {} THEN <<>> ELSE <<Min(S)>> \o Ascending(S \ {Min(S)})

Structural(visited, i, label) ==
  visited[i].attributes.attr = FALSE /\ visited[i].attributes.label = label

\* the local newEdges object of the remove handler after the visit: one entry
\* per label of an attr == false edge, in order of first visit; its attributes
\* are those of the first such edge, its source the target of the last one
\* leaving the node, its target the source of the last one entering it
BridgePlan(visited, node) ==
  LET first == {i \in 1..Len(visited) :
                  /\ visited[i].attributes.attr = FALSE
                  /\ \A j \in 1..(i - 1) :
                        ~Structural(visited, j, visited[i].attributes.label)}
      order == Ascending(first)
      out(l) == {i \in 1..Len(visited) :
                   Structural(visited, i, l) /\ visited[i].source = node}
      in(l) == {i \in 1..Len(visited) :
                  Structural(visited, i, l) /\ visited[i].target = node}
      entry(i) ==
        LET l == visited[i].attributes.label
        IN  [source |-> IF out(l) = {} THEN Undefined
                        ELSE visited[Max(out(l))].target,
             target |-> IF in(l) = {} THEN Undefined
                        ELSE visited[Max(in(l))].source,
             attributes |-> visited[i].attributes]
  IN  [k \in 1..Len(order) |-> entry(order[k])]

\* graph.addEdge(source, target, attributes): throws unless both ends exist
CanAddEdge(g, source, target) == HasNode(g, source) /\ HasNode(g, target)

\* the loop over the local newEdges object: addEdge, then push of the key
RECURSIVE AddBridges(_, _, _)
AddBridges(g, newEdges, plan) ==
  IF plan = <<>> THEN [graph |-> g, newEdges |-> newEdges, threw |-> FALSE]
  ELSE LET b == Head(plan)
       IN  IF ~CanAddEdge(g, b.source, b.target)
             THEN [graph |-> g, newEdges |-> newEdges, threw |-> TRUE]
             ELSE LET key == FreshKey(g, HeldKeys(newEdges))
                      g2 == AddEdgeWithKey(g, key, b.source, b.target, b.attributes)
                  IN  IF ~IsSome(newEdges)
                        THEN [graph |-> g2, newEdges |-> newEdges, threw |-> TRUE]
                        ELSE AddBridges(g2, Some(Append(Val(newEdges), key)), Tail(plan))

\* malopRemoveBtn click handler, for a defined contextState.selectedNode
malopRemove(g, cs) ==
  LET node == cs.selectedNode
      cs1 == [cs EXCEPT !.removedNode = node]
  IN  IF ~HasNode(g, node) THEN Outcome(g, cs1, TRUE)
      ELSE
        LET cs2 == [cs1 EXCEPT !.removedNodeAttributes = Some(g.nodes[node])]
            visited == IncidentEdges(g, node)
        IN  IF visited # <<>> /\ ~IsSome(cs.revmovedEdges) THEN Outcome(g, cs2, TRUE)
            ELSE
              LET cs3 == IF visited = <<>> THEN cs2
                         ELSE [cs2 EXCEPT !.revmovedEdges =
                                 Some(Val(@) \o RemovedEdges(visited))]
                  added == AddBridges(g, cs.newEdges, BridgePlan(visited, node))
                  cs4 == [cs3 EXCEPT !.newEdges = added.newEdges]
              IN  IF added.threw THEN Outcome(added.graph, cs4, TRUE)
                  ELSE Outcome(DropNode(added.graph, node), cs4, FALSE)

\* the first loop of the add-back handler
RECURSIVE AddEdges(_, _, _)
AddEdges(g, removed, held) ==
  IF removed = <<>> THEN [graph |-> g, threw |-> FALSE]
  ELSE LET r == Head(removed)
       IN  IF ~CanAddEdge(g, r.source, r.target) THEN [graph |-> g, threw |-> TRUE]
           ELSE AddEdges(AddEdgeWithKey(g, FreshKey(g, held), r.source, r.target,
                                        r.attributes),
                         Tail(removed), held)

\* the second loop of the add-back handler; graph.dropEdge throws on a key
\* the graph does not hold
RECURSIVE DropEdges(_, _)
DropEdges(g, keys) ==
  IF keys = <<>> THEN [graph |-> g, threw |-> FALSE]
  ELSE IF Head(keys) \notin EdgeKeys(g) THEN [graph |-> g, threw |-> TRUE]
       ELSE DropEdges(DropEdge(g, Head(keys)), Tail(keys))

ClearBuffer(cs) ==
  [cs EXCEPT !.removedNode = Undefined, !.removedNodeAttributes = None,
             !.revmovedEdges = None, !.newEdges = None]

\* malopAddBtn click handler, for a defined contextState.removedNode
malopAdd(g, cs) ==
  IF HasNode(g, cs.removedNode) THEN Outcome(g, cs, TRUE)
  ELSE
    LET g1 == AddNode(g, cs.removedNode,
                      IF IsSome(cs.removedNodeAttributes)
                        THEN Val(cs.removedNodeAttributes) ELSE EmptyAttributes)
    IN  IF ~IsSome(cs.revmovedEdges) THEN Outcome(g1, cs, TRUE)
        ELSE
          LET readded == AddEdges(g1, Val(cs.revmovedEdges), HeldKeys(cs.newEdges))
          IN  IF readded.threw \/ ~IsSome(cs.newEdges)
                THEN Outcome(readded.graph, cs, TRUE)
                ELSE
                  LET dropped == DropEdges(readded.graph, Val(cs.newEdges))
                  IN  IF dropped.threw THEN Outcome(dropped.graph, cs, TRUE)
                      ELSE Outcome(dropped.graph, ClearBuffer(cs), FALSE)

\* the edit buffer holds no removal: nothing removed, lists empty or unset
BufferEmpty(cs) ==
  /\ cs.removedNode = Undefined
  /\ cs.removedNodeAttributes = None
  /\ BufferLength(cs.revmovedEdges) = 0
  /\ BufferLength(cs.newEdges) = 0

WithinBounds(out) ==
  /\ Cardinality(out.graph.edges) <= MaxEdges
  /\ BufferLength(out.contextState.revmovedEdges) <= MaxBuffer
  /\ BufferLength(out.contextState.newEdges) <= MaxBuffer

\* which removed node each key of contextState.newEdges was synthesized for
BridgeOwners(cs, by) ==
  [k \in HeldKeys(cs.newEdges) |->
     IF k \in DOMAIN bridgeFor THEN bridgeFor[k] ELSE by]

MalopRemoveClick ==
  /\ transition' = "idle"
  /\ lod' = NoLod
  /\ rendered' = NoRender
  /\ UNCHANGED <<camera, state, timers>>
  /\ IF contextState.selectedNode = Undefined
       THEN /\ lastEvent' = Event("malopRemove", FALSE)
            /\ trip' = NoTrip
            /\ UNCHANGED <<graph, contextState, menuVisible, bridgeFor>>
       ELSE LET out == malopRemove(graph, contextState)
            IN  /\ WithinBounds(out)
                /\ graph' = out.graph
                /\ contextState' = out.contextState
                /\ menuVisible' = IF out.threw THEN menuVisible ELSE FALSE
                /\ lastEvent' = Event("malopRemove", out.threw)
                /\ bridgeFor' = BridgeOwners(out.contextState, contextState.selectedNode)
                /\ trip' = IF BufferEmpty(contextState)
                                /\ HasNode(graph, contextState.selectedNode)
                             THEN [stage |-> "removed", graph |-> graph,
                                   bridges |-> HeldKeys(out.contextState.newEdges)]
                             ELSE NoTrip

\* a mutation of MalopAddClick: the test of contextState.removedNode is left
\* out
MalopAddClickUnguarded ==
  /\ transition' = "idle"
  /\ lod' = NoLod
  /\ rendered' = NoRender
  /\ UNCHANGED <<camera, state, timers>>
  /\ LET out == malopAdd(graph, contextState)
     IN  /\ WithinBounds(out)
         /\ graph' = out.graph
         /\ contextState' = out.contextState
         /\ menuVisible' = IF out.threw THEN menuVisible ELSE FALSE
         /\ lastEvent' = Event("malopAdd", out.threw)
         /\ bridgeFor' = BridgeOwners(out.contextState, Undefined)
         /\ trip' = IF trip.stage = "removed"
                      THEN [trip EXCEPT !.stage = "restored"]
                      ELSE NoTrip

MalopAddClick ==
  /\ transition' = "idle"
  /\ lod' = NoLod
  /\ rendered' = NoRender
  /\ UNCHANGED <<camera, state, timers>>
  /\ IF contextState.removedNode = Undefined
       THEN /\ lastEvent' = Event("malopAdd", FALSE)
            /\ trip' = NoTrip
            /\ UNCHANGED <<graph, contextState, menuVisible, bridgeFor>>
       ELSE LET out == malopAdd(graph, contextState)
            IN  /\ WithinBounds(out)
                /\ graph' = out.graph
                /\ contextState' = out.contextState
                /\ menuVisible' = IF out.threw THEN menuVisible ELSE FALSE
                /\ lastEvent' = Event("malopAdd", out.threw)
                /\ bridgeFor' = BridgeOwners(out.contextState, Undefined)
                /\ trip' = IF trip.stage = "removed"
                             THEN [trip EXCEPT !.stage = "restored"]
                             ELSE NoTrip

\* ------------------------------------------------------------ layout selector
Options == {"machine", "user", "mitre", "other"}

Document(opt) == IF opt = "user" THEN userData ELSE machineData2

AlignmentChange(opt) ==
  /\ graph' = Import(Clear(graph), Document(opt))
  /\ lastEvent' = [Event("change", FALSE) EXCEPT !.arg = opt]
  /\ transition' = "idle"
  /\ lod' = NoLod
  /\ trip' = NoTrip
  /\ rendered' = NoRender
  /\ UNCHANGED <<camera, state, contextState, menuVisible, timers, bridgeFor>>

\* ------------------------------------------------------------------ reducers
Grey == "#f6f6f6"

\* { ...data }: the node's attributes as display data, nothing highlighted yet
NodeDisplay(data) ==
  [label |-> data.label, color |-> data.color, hidden |-> data.hidden,
   isExtraData |-> data.isExtraData, isMalop |-> data.isMalop,
   neighbors |-> data.neighbors, highlighted |-> Undefined]

Greyed(res) == [res EXCEPT !.label = "", !.color = Grey]

\* a mutation of nodeReducer: the selected node is highlighted whatever the
\* hovered node is
nodeReducerHighlightAlways(st, node, data) ==
  LET res == NodeDisplay(data)
      res0 == IF st.selectedNode = node THEN [res EXCEPT !.highlighted = True]
              ELSE res
  IN  IF st.hoveredNodeIsMalop = True THEN res0
      ELSE
        LET res1 == IF /\ IsSome(st.hoveredNeighbors)
                       /\ node \notin Val(st.hoveredNeighbors)
                       /\ st.hoveredNode # node
                      THEN Greyed(res0)
                      ELSE res0
        IN  IF st.selectedNode = node THEN res1
            ELSE IF IsSome(st.suggestions) /\ node \notin Val(st.suggestions)
                   THEN Greyed(res1)
                   ELSE res1

\* a mutation of nodeReducer: the selected node is handled before the hover
\* rule and skips it
nodeReducerSelectedFirst(st, node, data) ==
  LET res == NodeDisplay(data)
  IN  IF st.hoveredNodeIsMalop = True THEN res
      ELSE IF st.selectedNode = node THEN [res EXCEPT !.highlighted = True]
      ELSE IF \/ /\ IsSome(st.hoveredNeighbors)
                 /\ node \notin Val(st.hoveredNeighbors)
                 /\ st.hoveredNode # node
              \/ IsSome(st.suggestions) /\ node \notin Val(st.suggestions)
             THEN Greyed(res)
             ELSE res

nodeReducer(st, node, data) ==
  LET res == NodeDisplay(data)
  IN  IF st.hoveredNodeIsMalop = True THEN res
      ELSE
        LET res1 == IF /\ IsSome(st.hoveredNeighbors)
                       /\ node \notin Val(st.hoveredNeighbors)
                       /\ st.hoveredNode # node
                      THEN Greyed(res)
                      ELSE res
        IN  IF st.selectedNode = node THEN [res1 EXCEPT !.highlighted = True]
            ELSE IF IsSome(st.suggestions) /\ node \notin Val(st.suggestions)
                   THEN Greyed(res1)
                   ELSE res1

\* graph.hasExtremity(edge, node)
HasExtremity(e, node) == e.source = node \/ e.target = node

\* a mutation of edgeReducer: the suggestion rule hides an edge only when both
\* of its endpoints are outside the suggestion set
edgeReducerBothAbsent(st, e, data) ==
  IF st.hoveredNodeIsMalop = True THEN data
  ELSE
    LET hasNeighbor == IsSome(st.hoveredNeighbors) /\ e.source \in Val(st.hoveredNeighbors)
        res1 == IF st.hoveredNode # Undefined /\ ~HasExtremity(e, st.hoveredNode)
                   /\ ~hasNeighbor
                  THEN [data EXCEPT !.hidden = True]
                  ELSE data
    IN  IF /\ IsSome(st.suggestions)
           /\ e.source \notin Val(st.suggestions)
           /\ e.target \notin Val(st.suggestions)
          THEN [res1 EXCEPT !.hidden = True]
          ELSE res1

edgeReducer(st, e, data) ==
  IF st.hoveredNodeIsMalop = True THEN data
  ELSE
    LET hasNeighbor == IsSome(st.hoveredNeighbors) /\ e.source \in Val(st.hoveredNeighbors)
        res1 == IF st.hoveredNode # Undefined /\ ~HasExtremity(e, st.hoveredNode)
                   /\ ~hasNeighbor
                  THEN [data EXCEPT !.hidden = True]
                  ELSE data
    IN  IF /\ IsSome(st.suggestions)
           /\ \/ e.source \notin Val(st.suggestions)
              \/ e.target \notin Val(st.suggestions)
          THEN [res1 EXCEPT !.hidden = True]
          ELSE res1

\* sigma draws a node: the node reducer is applied to its attributes.
\* rendered holds the latest result until the next event.
ReduceNode(n) ==
  /\ HasNode(graph, n)
  /\ rendered' = [kind |-> "node", node |-> n, edge |-> None,
                  res |-> Some(nodeReducer(state, n, graph.nodes[n]))]
  /\ UNCHANGED <<graph, camera, state, contextState, menuVisible, timers,
                 lastEvent, transition, lod, trip, bridgeFor>>

\* sigma draws an edge: the edge reducer is applied to its attributes
ReduceEdge(e) ==
  /\ e \in graph.edges
  /\ rendered' = [kind |-> "edge", node |-> Undefined, edge |-> Some(e),
                  res |-> Some(edgeReducer(state, e, e.attributes))]
  /\ UNCHANGED <<graph, camera, state, contextState, menuVisible, timers,
                 lastEvent, transition, lod, trip, bridgeFor>>

\* -------------------------------------------------------------- specification
\* The whole program: every handler and callback.
Next ==
  \/ \E n \in NodeIds : EnterNode(n)
  \/ LeaveNode
  \/ ZoomIn
  \/ ZoomOut
  \/ ZoomReset
  \/ \E n \in NodeIds : DoubleClickNode(n)
  \/ ClickStage
  \/ AnimationFrame
  \/ \E n \in NodeIds : RightClickNode(n)
  \/ Timeout
  \/ MalopRemoveClick
  \/ MalopAddClick
  \/ \E opt \in Options : AlignmentChange(opt)
  \/ \E n \in NodeIds : ReduceNode(n)
  \/ \E e \in graph.edges : ReduceEdge(e)

Spec == Init /\ [][Next]_vars

\* The handlers are grouped by the state they read and write; each
\* specification below runs one group of Next from the program's initial
\* state, so each of its behaviours is a behaviour of Spec.

\* The context menu and the edit buffer: right-click, remove, add back, layout
\* switch.  No other handler writes graph nodes, edges or contextState, except
\* display_values, which writes node 'hidden' and edge 'color' only.
NextEdit ==
  \/ \E n \in NodeIds : RightClickNode(n)
  \/ Timeout
  \/ MalopRemoveClick
  \/ MalopAddClick
  \/ \E opt \in Options : AlignmentChange(opt)

SpecEdit == Init /\ [][NextEdit]_vars

\* The camera and the level-of-detail toggle, on both documents.
NextLod ==
  \/ ZoomIn
  \/ ZoomOut
  \/ ZoomReset
  \/ \E n \in NodeIds : DoubleClickNode(n)
  \/ ClickStage
  \/ AnimationFrame
  \/ \E opt \in Options : AlignmentChange(opt)

SpecLod == Init /\ [][NextLod]_vars

\* The reducers as functions of the interaction state: the hover fields as
\* setHoveredNode leaves them, the query fields (selectedNode, suggestions)
\* free.
HoverStates(g) ==
  {InitState, setHoveredNode(InitState, g, Undefined)}
    \cup {setHoveredNode(InitState, g, n) : n \in DOMAIN g.nodes}

InitReducer ==
  /\ graph \in {Import(EmptyGraph, machineData2), Import(EmptyGraph, userData)}
  /\ \E hover \in HoverStates(graph) :
       \E selected \in {Undefined} \cup DOMAIN graph.nodes :
         \E suggested \in {None} \cup {Some(S) : S \in SUBSET DOMAIN graph.nodes} :
           state = [hover EXCEPT !.selectedNode = selected, !.suggestions = suggested]
  /\ camera = [ratio |-> ResetRatio, target |-> None]
  /\ contextState = InitContextState
  /\ menuVisible = FALSE
  /\ timers = 0
  /\ lastEvent = Event("init", FALSE)
  /\ transition = "idle"
  /\ lod = NoLod
  /\ trip = NoTrip
  /\ bridgeFor = <<>>
  /\ rendered = NoRender

NextReducer ==
  \/ \E n \in NodeIds : ReduceNode(n)
  \/ \E e \in graph.edges : ReduceEdge(e)

SpecReducer == InitReducer /\ [][NextReducer]_vars

\* The hover handlers and the reducers, on both documents.  The query fields
\* of the interaction state (selectedNode, suggestions) are inputs: no handler
\* writes them.
QuerySelections == {Undefined, "p", "u"}

QuerySuggestions == {None, Some({"m", "x"}), Some({"v"})}

InitHover ==
  /\ graph = Import(EmptyGraph, machineData2)
  /\ \E selected \in QuerySelections :
       \E suggested \in QuerySuggestions :
         state = [InitState EXCEPT !.selectedNode = selected,
                                   !.suggestions = suggested]
  /\ camera = [ratio |-> ResetRatio, target |-> None]
  /\ contextState = InitContextState
  /\ menuVisible = FALSE
  /\ timers = 0
  /\ lastEvent = Event("init", FALSE)
  /\ transition = "idle"
  /\ lod = NoLod
  /\ trip = NoTrip
  /\ bridgeFor = <<>>
  /\ rendered = NoRender

NextHover ==
  \/ \E n \in NodeIds : EnterNode(n)
  \/ LeaveNode
  \/ \E opt \in Options : AlignmentChange(opt)
  \/ \E n \in NodeIds : ReduceNode(n)
  \/ \E e \in graph.edges : ReduceEdge(e)

SpecHover == InitHover /\ [][NextHover]_vars

\* Hovering over a graph that removals have changed: the edge reducer sees the
\* bridge edges of the remove handler.
NextHoverEdit ==
  \/ \E n \in NodeIds : EnterNode(n)
  \/ LeaveNode
  \/ \E n \in NodeIds : RightClickNode(n)
  \/ Timeout
  \/ MalopRemoveClick
  \/ \E e \in graph.edges : ReduceEdge(e)

SpecHoverEdit == Init /\ [][NextHoverEdit]_vars

\* The context menu's visibility: the right-click handler, its deferred
\* callback, the stage click, on both documents.
NextMenu ==
  \/ \E n \in NodeIds : RightClickNode(n)
  \/ Timeout
  \/ ClickStage
  \/ \E opt \in Options : AlignmentChange(opt)

SpecMenu == Init /\ [][NextMenu]_vars

\* ---------------------------------------------------------------------- claims
HoverActive == state.hoveredNode # Undefined /\ IsSome(state.hoveredNeighbors)

\* C9: when a hover is active on a node not flagged isMalop, the node reducer
\* gives every node that is neither the hovered node nor one of its neighbors
\* an empty label and the grey color, selected or suggested or not.
C9_NodeGreyedOnHover ==
  (/\ rendered.kind = "node"
   /\ HoverActive
   /\ state.hoveredNodeIsMalop # True
   /\ rendered.node # state.hoveredNode
   /\ rendered.node \notin Val(state.hoveredNeighbors))
  => (Val(rendered.res).label = "" /\ Val(rendered.res).color = Grey)

\* C9 witness: the selected node, outside the hover's neighborhood, is drawn
\* greyed and highlighted.
C9_Witness ==
  /\ rendered.kind = "node"
  /\ HoverActive
  /\ state.hoveredNodeIsMalop # True
  /\ rendered.node # state.hoveredNode
  /\ rendered.node \notin Val(state.hoveredNeighbors)
  /\ rendered.node = state.selectedNode
  /\ Val(rendered.res).label = ""
  /\ Val(rendered.res).highlighted = True

OutsideHover(e) ==
  /\ state.hoveredNode # Undefined
  /\ ~HasExtremity(e, state.hoveredNode)
  /\ IsSome(state.hoveredNeighbors) =>
       (e.source \notin Val(state.hoveredNeighbors)
          /\ e.target \notin Val(state.hoveredNeighbors))

OutsideSuggestions(e) ==
  /\ IsSome(state.suggestions)
  /\ \/ e.source \notin Val(state.suggestions)
     \/ e.target \notin Val(state.suggestions)

\* C10: when the hovered node is not flagged isMalop, the edge reducer hides
\* every edge that (a) during a hover touches neither the hovered node nor a
\* node of its neighbor set, or (b) has an endpoint outside an active
\* suggestion set.
C10_EdgeHidden ==
  (/\ rendered.kind = "edge"
   /\ state.hoveredNodeIsMalop # True
   /\ OutsideHover(Val(rendered.edge)) \/ OutsideSuggestions(Val(rendered.edge)))
  => Val(rendered.res).hidden = True

\* C10 witness: an edge with exactly one endpoint outside the suggestion set,
\* touching the hovered node, is drawn hidden.
C10_Witness ==
  /\ rendered.kind = "edge"
  /\ state.hoveredNodeIsMalop # True
  /\ HoverActive
  /\ HasExtremity(Val(rendered.edge), state.hoveredNode)
  /\ OutsideSuggestions(Val(rendered.edge))
  /\ Val(rendered.edge).source \in Val(state.suggestions)
  /\ Val(rendered.res).hidden = True

\* C10 second witness: with no suggestion set, an edge away from the hovered
\* node and its neighbors is drawn hidden.
C10_WitnessHover ==
  /\ rendered.kind = "edge"
  /\ state.hoveredNodeIsMalop # True
  /\ state.suggestions = None
  /\ OutsideHover(Val(rendered.edge))
  /\ Val(rendered.res).hidden = True

\* C6: once a zoom transition has finished, and before any further user
\* event, the level-of-detail toggle has been applied at the ratio the
\* transition reached: applying it again at that ratio would change nothing.
C6_LodFollowsTransition ==
  transition = "done" => display_values(graph, camera.ratio) = graph

\* C7: a run of display_values at ratio r leaves every node flagged
\* isExtraData hidden when r >= 0.3 and with hidden = false when r < 0.3,
\* whatever its hidden value was, and leaves the hidden value of the other
\* nodes as it was.
C7_LodThreshold ==
  [][lod'.ran =>
       \A n \in DOMAIN graph.nodes :
         IF graph.nodes[n].isExtraData = True
           THEN graph'.nodes[n].hidden =
                  (IF lod'.ratio >= Threshold THEN True ELSE False)
           ELSE graph'.nodes[n].hidden = graph.nodes[n].hidden]_vars

Triple(e) == [source |-> e.source, target |-> e.target, attributes |-> e.attributes]

\* the same nodes with the same attributes and the same multiset of
\* (source, target, attributes) edges
SameGraph(g1, g2) ==
  /\ g1.nodes = g2.nodes
  /\ \A t \in {Triple(e) : e \in g1.edges \cup g2.edges} :
       Cardinality({e \in g1.edges : Triple(e) = t})
         = Cardinality({e \in g2.edges : Triple(e) = t})

\* C1: remove-node on a node of the graph selected while the edit buffer is
\* empty, followed by add-node-back, leaves the graph with the nodes,
\* attributes and multiset of edges it had before the remove, and with none of
\* the bridge edges the remove created.
C1_RoundTrip ==
  trip.stage = "restored" =>
    /\ SameGraph(graph, trip.graph)
    /\ trip.bridges \cap EdgeKeys(graph) = {}

BufferAllSet(cs) ==
  /\ cs.removedNode # Undefined
  /\ IsSome(cs.removedNodeAttributes)
  /\ IsSome(cs.revmovedEdges)
  /\ IsSome(cs.newEdges)

\* C2: in every reachable state the four fields of the edit buffer are all
\* set (fully populated) or all unset (empty; a list counts as unset when it
\* is undefined or holds nothing).
C2_BufferAllOrNothing ==
  BufferAllSet(contextState) \/ BufferEmpty(contextState)

\* C3: whenever removedNode is set, every entry of the removed-edges list is
\* an edge that was incident to removedNode and every entry of the new-edges
\* list is a bridge synthesized for removedNode: a second remove never stacks
\* another node's edges into the buffer.
C3_SingleSlot ==
  contextState.removedNode # Undefined =>
    /\ IsSome(contextState.revmovedEdges) =>
         \A r \in Range(Val(contextState.revmovedEdges)) :
           HasExtremity(r, contextState.removedNode)
    /\ \A k \in HeldKeys(contextState.newEdges) :
         bridgeFor[k] = contextState.removedNode

StructuralAt(g, n) ==
  {e \in g.edges : HasExtremity(e, n) /\ e.attributes.attr = FALSE}

OtherEnd(e, n) == IF e.source = n THEN e.target ELSE e.source

\* n has exactly two structural edges, of one label, joining it to two other
\* nodes
PairCase(g, n) ==
  /\ HasNode(g, n)
  /\ Cardinality(StructuralAt(g, n)) = 2
  /\ \A e, f \in StructuralAt(g, n) :
       /\ e.attributes.label = f.attributes.label
       /\ e.source # e.target

\* C4: when the removed node has exactly two structural edges sharing a label,
\* one to A and one to B, whichever end of each it is on, remove-node adds
\* exactly one new edge, between A and B, carrying the label's attributes,
\* records its key in the new-edges list, and drops the node.
C4_BridgeForPair ==
  [][(lastEvent'.type = "malopRemove"
        /\ contextState.selectedNode # Undefined
        /\ PairCase(graph, contextState.selectedNode))
     => LET n == contextState.selectedNode
            ends == {OtherEnd(e, n) : e \in StructuralAt(graph, n)}
            added == {e \in graph'.edges : e.key \notin EdgeKeys(graph)}
        IN  /\ Cardinality(added) = 1
            /\ \A e \in added :
                 /\ {e.source, e.target} = ends
                 /\ e.attributes \in {f.attributes : f \in StructuralAt(graph, n)}
                 /\ IsSome(contextState'.newEdges)
                 /\ IsSome(contextState.newEdges)
                 /\ Val(contextState'.newEdges)
                      = Append(Val(contextState.newEdges), e.key)
            /\ ~HasNode(graph', n)]_vars

\* n has a structural edge that is the only one of its label at n
SingleCase(g, n, e) ==
  /\ HasNode(g, n)
  /\ e \in StructuralAt(g, n)
  /\ \A f \in StructuralAt(g, n) :
       f.attributes.label = e.attributes.label => f = e

\* C5: when the removed node has only one structural edge under a label,
\* remove-node creates no bridge edge for that label and still completes: the
\* edge is recorded in the removed-edges list and the node is dropped with
\* all its incident edges.
C5_SingleEdgeNoBridge ==
  [][\A e \in graph.edges :
       (lastEvent'.type = "malopRemove"
          /\ contextState.selectedNode # Undefined
          /\ SingleCase(graph, contextState.selectedNode, e))
       => /\ \A f \in graph'.edges :
               f.key \notin EdgeKeys(graph) =>
                 f.attributes.label # e.attributes.label
          /\ IsSome(contextState'.revmovedEdges)
          /\ Triple(e) \in Range(Val(contextState'.revmovedEdges))
          /\ ~HasNode(graph', contextState.selectedNode)
          /\ \A f \in graph'.edges :
               ~HasExtremity(f, contextState.selectedNode)]_vars

\* ------------------------------------------------------------- hover claims
\* the pointer is on a node of the graph that is flagged isMalop
MalopHover ==
  /\ state.hoveredNode # Undefined
  /\ HasNode(graph, state.hoveredNode)
  /\ graph.nodes[state.hoveredNode].isMalop = True

\* the last event put the pointer on a node that is not flagged isMalop
EnteredPlainNode ==
  /\ lastEvent.type = "enterNode"
  /\ graph.nodes[state.hoveredNode].isMalop # True

C12_LayoutSwitch ==
  lastEvent.type = "change" =>
    /\ graph.nodes = Document(lastEvent.arg).nodes
    /\ graph.edges = Document(lastEvent.arg).edges

\* C12 witness: a switch to the user layout while a removal with a bridge
\* edge is pending.
C12_Witness ==
  /\ lastEvent.type = "change"
  /\ lastEvent.arg = "user"
  /\ contextState.removedNode # Undefined
  /\ HeldKeys(contextState.newEdges) # {}
  /\ graph.nodes = userData.nodes
  /\ graph.edges = userData.edges

\* C13: when the pointer has entered a node that is not flagged isMalop and
\* has no neighbors attribute, the hover suppresses nothing: any other node
\* that the query rules leave alone is drawn with its own label and color.
C13_NoNeighborsNoSuppression ==
  (/\ rendered.kind = "node"
   /\ EnteredPlainNode
   /\ graph.nodes[state.hoveredNode].neighbors = None
   /\ rendered.node # state.hoveredNode
   /\ state.suggestions = None)
  => /\ Val(rendered.res).label = graph.nodes[rendered.node].label
     /\ Val(rendered.res).color = graph.nodes[rendered.node].color

\* ------------------------------------------------- edit buffer cycle claims
\* the buffer as a completed add-back leaves it
AfterAddBack(cs) ==
  /\ cs.removedNode = Undefined
  /\ cs.removedNodeAttributes = None
  /\ cs.revmovedEdges = None
  /\ cs.newEdges = None

\* C14: after a remove-node and a completed add-node-back, a remove-node on a
\* right-clicked node of the graph with at least one incident edge completes:
\* no error, the node is dropped, its incident edges are the removed-edges
\* list, and the buffer is fully populated for that node.
C14_CycleRepeats ==
  [][(/\ lastEvent'.type = "malopRemove"
      /\ AfterAddBack(contextState)
      /\ contextState.selectedNode # Undefined
      /\ HasNode(graph, contextState.selectedNode)
      /\ IncidentEdges(graph, contextState.selectedNode) # <<>>)
     => /\ ~lastEvent'.threw
        /\ ~HasNode(graph', contextState.selectedNode)
        /\ BufferAllSet(contextState')
        /\ contextState'.removedNode = contextState.selectedNode
        /\ Range(Val(contextState'.revmovedEdges))
             = {RemovedEdge(e) : e \in Range(IncidentEdges(graph, contextState.selectedNode))}]_vars

\* C16: when the layout has just been switched while a removal was pending,
\* an add-node-back adds no node and no edge to the imported graph and raises
\* no error.
C16_RemovalScopedToGraph ==
  [][(/\ lastEvent.type = "change"
      /\ contextState.removedNode # Undefined
      /\ lastEvent'.type = "malopAdd")
     => /\ DOMAIN graph'.nodes \subseteq DOMAIN graph.nodes
        /\ graph'.edges \subseteq graph.edges
        /\ ~lastEvent'.threw]_vars

\* C17: an add-node-back while removedNode is unset, and a remove-node while
\* no node has been selected by right-click, change neither the graph nor any
\* of the four fields of the edit buffer.
C17_NoPendingNoOp ==
  [][/\ (lastEvent'.type = "malopAdd" /\ contextState.removedNode = Undefined)
         => (graph' = graph /\ contextState' = contextState)
     /\ (lastEvent'.type = "malopRemove" /\ contextState.selectedNode = Undefined)
         => (graph' = graph /\ contextState' = contextState)]_vars

\* C17 witness: an add-node-back clicked after a completed cycle, with the
\* menu open again: the buffer is as the completed add-back left it and the
\* menu is still open.
C17_Witness ==
  /\ lastEvent.type = "malopAdd"
  /\ ~lastEvent.threw
  /\ AfterAddBack(contextState)
  /\ menuVisible

\* ----------------------------------------------------- hover edge visibility
\* C15: when a hover is active, the hovered node is not flagged isMalop and
\* no suggestion set is active, an edge that is not hidden in the graph is
\* drawn not hidden whenever its source or its target is the hovered node or
\* a member of the hover's neighbor set.
C15_EdgeEitherEnd ==
  (/\ rendered.kind = "edge"
   /\ HoverActive
   /\ state.hoveredNodeIsMalop # True
   /\ state.suggestions = None
   /\ Val(rendered.edge).attributes.hidden # True
   /\ \E end \in {Val(rendered.edge).source, Val(rendered.edge).target} :
        end = state.hoveredNode \/ end \in Val(state.hoveredNeighbors))
  => Val(rendered.res).hidden # True

\* ------------------------------------------------------ hover state claims
\* the documents in which node n is flagged isMalop
FlaggedIn(n) ==
  {d \in {machineData2, userData} :
     n \in DOMAIN d.nodes /\ d.nodes[n].isMalop = True}

\* C18: hoveredNeighbors is set exactly when hoveredNode is set;
\* hoveredNodeIsMalop is true only when hoveredNode is set and the node was
\* flagged isMalop when the pointer entered it; after a pointer-leave every
\* hover field is cleared.
C18_HoverConsistent ==
  /\ IsSome(state.hoveredNeighbors) <=> state.hoveredNode # Undefined
  /\ state.hoveredNodeIsMalop = True =>
       (state.hoveredNode # Undefined /\ FlaggedIn(state.hoveredNode) # {})
  /\ lastEvent.type = "enterNode" =>
       state.hoveredNodeIsMalop = graph.nodes[state.hoveredNode].isMalop
  /\ lastEvent.type = "leaveNode" =>
       /\ state.hoveredNode = Undefined
       /\ state.hoveredNeighbors = None
       /\ state.hoveredNodeLabel = Undefined
       /\ state.hoveredNodeIsMalop = False

\* C18 witness: the pointer has entered a flagged node that has no neighbors
\* attribute: hoveredNeighbors is set all the same, and the flag is on.
C18_Witness ==
  /\ lastEvent.type = "enterNode"
  /\ state.hoveredNode = "w"
  /\ state.hoveredNeighbors = Some({})
  /\ state.hoveredNodeLabel = "W"
  /\ state.hoveredNodeIsMalop = True

\* -------------------------------------------------------- context menu claims
\* C19: once a click on the stage has been handled, the context menu is not
\* visible, and it stays not visible until the next right-click on a node,
\* however the deferred callback of an earlier right-click is scheduled.
C19_StageClickClosesMenu ==
  lastEvent.stageClicked => ~menuVisible

====
